---- MODULE Spec2Model ----
(***************************************************************************)
(* Semantic-match engine of the university chatbot backend.                *)
(*                                                                         *)
(* The model covers app/chatbot.py (module globals index / faq_data,      *)
(* load_faiss_and_faq, query_bot), app/routes/retrain_route.py            *)
(* (retrain_index) and the corpus writers of app/routes/faq_routes.py.    *)
(* Endpoints are plain "def" handlers, which FastAPI runs on a thread     *)
(* pool: handlers interleave at every access to a module global, to the   *)
(* corpus collection or to a file of app/data.                            *)
(*                                                                         *)
(* Ghost data: every rebuild is numbered by the request that runs it, and  *)
(* the artifacts it writes carry that number in a field "gen"; the         *)
(* snapshot deployed with the process is generation 0.  The code has no    *)
(* such field; it only serves to state the properties.                     *)
(***************************************************************************)
EXTENDS Integers, Sequences, FiniteSets, TLC

\* ---------------------------------------------------------------- bounds
MaxRetrain == 2      \* retrain_index calls made during a run
MaxQuery   == 1      \* query_bot calls made during a run

Retrainers == 1..MaxRetrain
Queries    == 1..MaxQuery

\* ------------------------------------------------------- program constants
DISTANCE_THRESHOLD == 1

\* the string returned at line 38, no confident match
FALLBACK == "I'm sorry, I couldn't find a relevant answer to your question. Please try rephrasing or contact support."

\* the string returned at line 42, from the except clause
FALLBACK_ON_ERROR == "I'm sorry, I couldn't find a relevant answer to your question. Please try rephrasing or contact support."

\* faiss reports a missing neighbour as label -1 at the largest float
NoNeighbourLabel    == -1
NoNeighbourDistance == 1000

\* -------------------------------------------------------------- documents
\* FAQ(question, answer) documents an administrator can post
Docs ==
  { [question |-> "hours", answer |-> "9am-9pm"],
    [question |-> "library", answer |-> "second floor"] }

\* one more document, for the snapshots the matching is exercised on
MatchDocs == Docs \cup { [question |-> "parking", answer |-> "lot B"] }

\* current_user["role"] of the caller of an administrative route
Roles == {"admin", "student"}

QueryTexts == {"hours", "open"}

\* one more question, far from every document
MatchTexts == QueryTexts \cup {"weather"}

\* the embedding provider: a fixed text -> vector table of dimension 2
get_embedding(text) ==
  CASE text = "hours"   -> <<0, 0>>
    [] text = "open"    -> <<1, 0>>
    [] text = "library" -> <<2, 0>>
    [] text = "parking" -> <<0, 1>>
    [] OTHER            -> <<3, 3>>

\* model.encode(texts): one row per text, in order
encode(texts) == [i \in 1..Len(texts) |-> get_embedding(texts[i])]

\* texts = [f["question"] for f in faqs]
Texts(faqs) == [i \in 1..Len(faqs) |-> faqs[i].question]

\* faq_data = [{"question": texts[i], "answer": answers[i]} ...]
FaqDataAnswersReversed(faqs) ==
  [i \in 1..Len(faqs) |-> [question |-> faqs[i].question,
                           answer |-> faqs[Len(faqs) + 1 - i].answer]]

FaqData(faqs) ==
  [i \in 1..Len(faqs) |-> [question |-> faqs[i].question, answer |-> faqs[i].answer]]

\* ---------------------------------------------------------- snapshot files
\* retrain_index writes "app/data/..." relative to the working directory
\* (lines 47, 59, 72) and load_faiss_and_faq reads <directory of chatbot.py>/
\* data/... (lines 17-18): the same files for a process run from the
\* repository root, as run.py is launched, which is the case modelled
\* IndexFlatL2(vectors.shape[1]): the dimension of the rows; an index without
\* rows has the dimension of the embedding model
Dim(vectors) ==
  IF Len(vectors) = 0 THEN Len(get_embedding("")) ELSE Len(vectors[1])

\* the rows of a matrix one after the other
RECURSIVE Flatten(_)
Flatten(vectors) ==
  IF Len(vectors) = 0 THEN <<>> ELSE Head(vectors) \o Flatten(Tail(vectors))

\* faiss.write_index of a flat index: the dimension, the number of rows and
\* the rows as one array of floats
write_index(vectors) ==
  [d |-> Dim(vectors), ntotal |-> Len(vectors), xb |-> Flatten(vectors)]

\* faiss.read_index: row i is the i-th run of d floats of the array
read_index_Transposed(blob) ==
  [i \in 1..blob.ntotal |->
     [k \in 1..blob.d |-> blob.xb[(k - 1) * blob.ntotal + i]]]

read_index(blob) ==
  [i \in 1..blob.ntotal |->
     [k \in 1..blob.d |-> blob.xb[(i - 1) * blob.d + k]]]

\* json.dump of the list of dicts: an array of objects, each the sequence of
\* its <<key, value>> members in insertion order
json_dump(recs) ==
  [i \in 1..Len(recs) |->
     << <<"question", recs[i].question>>, <<"answer", recs[i].answer>> >>]

\* the value of the member of obj named key
Member(obj, key) ==
  obj[CHOOSE k \in 1..Len(obj) : obj[k][1] = key][2]

\* json.load: the array read back as a list of dicts
json_load(text) ==
  [i \in 1..Len(text) |->
     [question |-> Member(text[i], "question"),
      answer   |-> Member(text[i], "answer")]]

\* ------------------------------------------------------- nearest neighbour
\* squared Euclidean distance of two vectors of the same dimension
RECURSIVE SumSq(_, _, _)
SumSq(u, v, i) ==
  IF i > Len(u) THEN 0
  ELSE (u[i] - v[i]) * (u[i] - v[i]) + SumSq(u, v, i + 1)

L2(u, v) == SumSq(u, v, 1)

\* index.search(x, k=1) on a flat L2 index; positions are 0-based as in
\* faiss, rows of the sequence are 1-based.  The flat index scans its rows in
\* insertion order and keeps a row only when it is strictly nearer than the
\* best so far
SearchKeepsLastOfTies(vectors, x) ==
  IF Len(vectors) = 0
  THEN [I |-> NoNeighbourLabel, D |-> NoNeighbourDistance]
  ELSE LET best == CHOOSE i \in 1..Len(vectors) :
                     \A j \in 1..Len(vectors) :
                        \/ L2(vectors[i], x) < L2(vectors[j], x)
                        \/ (L2(vectors[i], x) = L2(vectors[j], x) /\ i >= j)
       IN [I |-> best - 1, D |-> L2(vectors[best], x)]

Search(vectors, x) ==
  IF Len(vectors) = 0
  THEN [I |-> NoNeighbourLabel, D |-> NoNeighbourDistance]
  ELSE LET best == CHOOSE i \in 1..Len(vectors) :
                     \A j \in 1..Len(vectors) :
                        \/ L2(vectors[i], x) < L2(vectors[j], x)
                        \/ (L2(vectors[i], x) = L2(vectors[j], x) /\ i <= j)
       IN [I |-> best - 1, D |-> L2(vectors[best], x)]

\* the comparison of line 37, last disjunct
ExceedsThresholdInclusive(distance) == distance >= DISTANCE_THRESHOLD

ExceedsThreshold(distance) == distance > DISTANCE_THRESHOLD

\* the condition of line 37
NoConfidentMatchNoThreshold(matched_index, n, distance) ==
  matched_index < 0 \/ matched_index >= n

NoConfidentMatch(matched_index, n, distance) ==
  matched_index < 0 \/ matched_index >= n \/ ExceedsThreshold(distance)

\* ------------------------------------------------------------------- state
VARIABLES
  corpus,       \* faq_collection: the documents, in natural (insertion) order
  indexFile,    \* app/data/faiss_index.index
  faqDataFile,  \* app/data/faq_data.json
  index,        \* chatbot.index
  faq_data,     \* chatbot.faq_data
  retrain,      \* per retrain_index call: position and locals
  query,        \* per query_bot call: position and locals
  deployed,     \* ghost: the documents of generation 0
  lastSuccess   \* ghost: generation of the last successful retrain_index with
                \*        no assignment to index / faq_data since, else NoGen

vars == <<corpus, indexFile, faqDataFile, index, faq_data,
          retrain, query, deployed, lastSuccess>>

NoGen == -1

\* "index = None" / "faq_data = None" of lines 12-13
NoIndex   == [gen |-> NoGen, vectors |-> <<>>]
NoFaqData == [gen |-> NoGen, recs |-> <<>>]

\* stage: the statement of retrain_index that raised, which the detail of
\* the HTTP 500 response names through str(e)
RetrainIdle ==
  [pc |-> "idle", faqs |-> <<>>, count |-> 0, status |-> "none",
   stage |-> "none"]

QueryIdle ==
  [pc |-> "idle", text |-> "", embedding |-> <<>>, matched_index |-> 0,
   distance |-> 0, result |-> "", raised |-> FALSE,
   startIndex |-> NoGen, startFaq |-> NoGen, searched |-> NoGen,
   checked |-> NoGen, looked |-> NoGen, faulted |-> FALSE, after |-> NoGen]

\* the snapshots app/data can be deployed with: no document or one document
InitialSnapshots == {<<>>} \cup {<<d>> : d \in Docs}

\* the sequences of distinct documents of S
RECURSIVE Orderings(_)
Orderings(S) ==
  {<<>>} \cup UNION { {<<d>> \o rest : rest \in Orderings(S \ {d})} : d \in S }

\* the state once "import app.chatbot" has run load_faiss_and_faq (line 24)
\* on a snapshot of the documents faqs deployed in app/data, the corpus being
\* the deployed one
Loaded(faqs) ==
  /\ corpus = faqs
  /\ deployed = faqs
  /\ indexFile = [gen |-> 0, blob |-> write_index(encode(Texts(faqs)))]
  /\ faqDataFile = [gen |-> 0, text |-> json_dump(FaqData(faqs))]
  /\ index = [gen |-> 0, vectors |-> read_index(indexFile.blob)]
  /\ faq_data = [gen |-> 0, recs |-> json_load(faqDataFile.text)]
  /\ retrain = [r \in Retrainers |-> RetrainIdle]
  /\ query = [q \in Queries |-> QueryIdle]
  /\ lastSuccess = NoGen

Init == \E faqs \in InitialSnapshots : Loaded(faqs)

\* query_bot calls of a run in which calls are compared with one another
Callers == 1..(MaxQuery + 1)

\* the state once the process has started on a snapshot of the documents faqs,
\* faq_collection being collection and callers the query_bot calls to come
Started(faqs, collection, callers) ==
  /\ corpus = collection
  /\ deployed = faqs
  /\ indexFile = [gen |-> 0, blob |-> write_index(encode(Texts(faqs)))]
  /\ faqDataFile = [gen |-> 0, text |-> json_dump(FaqData(faqs))]
  /\ index = [gen |-> 0, vectors |-> read_index(indexFile.blob)]
  /\ faq_data = [gen |-> 0, recs |-> json_load(faqDataFile.text)]
  /\ retrain = [r \in Retrainers |-> RetrainIdle]
  /\ query = [q \in callers |-> QueryIdle]
  /\ lastSuccess = NoGen

\* ------------------------------------------------------------ corpus source
\* POST /faqs: insert_one for an administrator, 403 for anybody else; a
\* document of Docs is posted while the collection does not hold it
add_faq(faq, role) ==
  /\ role = "admin"
  /\ \A i \in 1..Len(corpus) : corpus[i] # faq
  /\ corpus' = Append(corpus, faq)
  /\ UNCHANGED <<indexFile, faqDataFile, index, faq_data,
                 retrain, query, deployed, lastSuccess>>

\* DELETE /faqs/{id}: delete_one of the document at position id, 404 when
\* there is none
delete_faq(id, role) ==
  /\ role = "admin"
  /\ id \in 1..Len(corpus)
  /\ corpus' = [i \in 1..(Len(corpus) - 1) |->
                  IF i < id THEN corpus[i] ELSE corpus[i + 1]]
  /\ UNCHANGED <<indexFile, faqDataFile, index, faq_data,
                 retrain, query, deployed, lastSuccess>>

\* ------------------------------------------------------------ retrain_index
\* the positions of a retrain_index call that has fetched a corpus and has not
\* returned: building, persisting, reloading
Rebuilding ==
  {"built", "index_saved", "faq_data_saved", "index_loaded"}

\* lines 29-31: "if not faqs"
IsEmptyCorpusAlwaysFalse(faqs) == FALSE

IsEmptyCorpus(faqs) == Len(faqs) = 0

\* a running query stops counting as "begun after the last success, with no
\* publication since" as soon as a global is reassigned (ghost)
Published(qs) ==
  [q \in Queries |->
     IF qs[q].pc \in {"idle", "returned"} THEN qs[q]
     ELSE [qs[q] EXCEPT !.after = NoGen]]

\* calls are numbered in the order in which they fetch the corpus
NextCall(r) ==
  /\ retrain[r].pc = "idle"
  /\ \A s \in Retrainers : s < r => retrain[s].pc # "idle"

\* db.py lines 18-31: faq_collection is None for the life of the process when
\* the connection to the database failed at import
NoCollection == "None"

\* lines 24-25 and 98-100: with faq_collection None the call raises
\* HTTPException(503) inside the try block; "except Exception" catches it and
\* raises HTTPException(500, "Retraining failed: ...") in its place
RetrainNoDatabase(r) ==
  /\ NextCall(r)
  /\ corpus = NoCollection
  /\ retrain' = [retrain EXCEPT ![r] =
       [RetrainIdle EXCEPT !.pc = "returned", !.status = "Retraining failed",
                           !.stage = "database"]]
  /\ UNCHANGED <<corpus, indexFile, faqDataFile, index, faq_data,
                 query, deployed, lastSuccess>>

\* lines 28-31: the call fetches the corpus and finds it empty: "No data to
\* retrain"
RetrainEmpty(r) ==
  /\ NextCall(r)
  /\ IsEmptyCorpus(corpus)
  /\ retrain' = [retrain EXCEPT ![r] =
       [RetrainIdle EXCEPT !.pc = "returned", !.status = "No data to retrain"]]
  /\ UNCHANGED <<corpus, indexFile, faqDataFile, index, faq_data,
                 query, deployed, lastSuccess>>

\* lines 28-45: the call fetches a non-empty corpus, embeds the questions and
\* adds the vectors to a new flat index; the vectors are encode(Texts(faqs)),
\* a function of the fetched documents
RetrainFetch(r) ==
  /\ NextCall(r)
  /\ ~IsEmptyCorpus(corpus)
  /\ retrain' = [retrain EXCEPT ![r] =
       [RetrainIdle EXCEPT !.pc = "built", !.faqs = corpus]]
  /\ UNCHANGED <<corpus, indexFile, faqDataFile, index, faq_data,
                 query, deployed, lastSuccess>>

\* lines 28-40 and 98-100: the call fetches a non-empty corpus and model.encode
\* raises: the embedding provider failed
RetrainEmbedFailAfterWrite(r) ==
  /\ NextCall(r)
  /\ ~IsEmptyCorpus(corpus)
  /\ indexFile' = [indexFile EXCEPT !.gen = r]
  /\ retrain' = [retrain EXCEPT ![r] =
       [RetrainIdle EXCEPT !.pc = "returned", !.faqs = corpus,
                           !.status = "Retraining failed", !.stage = "encode"]]
  /\ UNCHANGED <<corpus, faqDataFile, index, faq_data,
                 query, deployed, lastSuccess>>

RetrainEmbedFail(r) ==
  /\ NextCall(r)
  /\ ~IsEmptyCorpus(corpus)
  /\ retrain' = [retrain EXCEPT ![r] =
       [RetrainIdle EXCEPT !.pc = "returned", !.faqs = corpus,
                           !.status = "Retraining failed", !.stage = "encode"]]
  /\ UNCHANGED <<corpus, indexFile, faqDataFile, index, faq_data,
                 query, deployed, lastSuccess>>

\* lines 43-48: a new IndexFlatL2 holding the vectors of this call, written
\* over the index file
RetrainWriteIndexAppending(r) ==
  /\ retrain[r].pc = "built"
  /\ indexFile' = [gen |-> r,
                   blob |-> write_index(read_index(indexFile.blob)
                                          \o encode(Texts(retrain[r].faqs)))]
  /\ retrain' = [retrain EXCEPT ![r].pc = "index_saved"]
  /\ UNCHANGED <<corpus, faqDataFile, index, faq_data,
                 query, deployed, lastSuccess>>

RetrainWriteIndex(r) ==
  /\ retrain[r].pc = "built"
  /\ indexFile' = [gen |-> r,
                   blob |-> write_index(encode(Texts(retrain[r].faqs)))]
  /\ retrain' = [retrain EXCEPT ![r].pc = "index_saved"]
  /\ UNCHANGED <<corpus, faqDataFile, index, faq_data,
                 query, deployed, lastSuccess>>

\* lines 52-74: faq_lookup.json, a file nothing of the engine reads back,
\* then faq_data.json
RetrainWriteFaqData(r) ==
  /\ retrain[r].pc = "index_saved"
  /\ faqDataFile' = [gen |-> r, text |-> json_dump(FaqData(retrain[r].faqs))]
  /\ retrain' = [retrain EXCEPT ![r].pc = "faq_data_saved"]
  /\ UNCHANGED <<corpus, indexFile, index, faq_data,
                 query, deployed, lastSuccess>>

\* line 84 -> chatbot.py line 19: index = faiss.read_index(index_path), a new
\* object bound to the global
ReloadIndexInPlace(r) ==
  /\ retrain[r].pc = "faq_data_saved"
  /\ index' = [index EXCEPT !.vectors = read_index(indexFile.blob)]
  /\ retrain' = [retrain EXCEPT ![r].pc = "index_loaded"]
  /\ query' = Published(query)
  /\ lastSuccess' = NoGen
  /\ UNCHANGED <<corpus, indexFile, faqDataFile, faq_data, deployed>>

ReloadIndex(r) ==
  /\ retrain[r].pc = "faq_data_saved"
  /\ index' = [gen |-> indexFile.gen, vectors |-> read_index(indexFile.blob)]
  /\ retrain' = [retrain EXCEPT ![r].pc = "index_loaded"]
  /\ query' = Published(query)
  /\ lastSuccess' = NoGen
  /\ UNCHANGED <<corpus, indexFile, faqDataFile, faq_data, deployed>>

\* chatbot.py lines 20-21: faq_data = json.load(f); then lines 85-96: the
\* success response with count = len(texts)
ReloadFaqData(r) ==
  /\ retrain[r].pc = "index_loaded"
  /\ faq_data' = [gen |-> faqDataFile.gen, recs |-> json_load(faqDataFile.text)]
  /\ retrain' = [retrain EXCEPT ![r].pc = "returned", ![r].status = "success",
                                 ![r].count = Len(retrain[r].faqs)]
  /\ query' = Published(query)
  /\ lastSuccess' = r
  /\ UNCHANGED <<corpus, indexFile, faqDataFile, index, deployed>>

\* the statement a call at position pc executes next
NextStatement(pc) ==
  CASE pc = "idle"           -> "find"
    [] pc = "built"          -> "write_index"
    [] pc = "index_saved"    -> "dump_faq_data"
    [] pc = "faq_data_saved" -> "read_index"
    [] pc = "index_loaded"   -> "load_faq_data"

\* lines 98-100: an exception inside the try block (the find, a write,
\* read_index, json.load) ends the call with HTTP 500; what was written or
\* assigned before the exception stays
RetrainFail(r) ==
  /\ retrain[r].pc \in Rebuilding \/ NextCall(r)
  /\ retrain' = [retrain EXCEPT ![r].pc = "returned",
                                 ![r].status = "Retraining failed",
                                 ![r].stage = NextStatement(retrain[r].pc)]
  /\ UNCHANGED <<corpus, indexFile, faqDataFile, index, faq_data,
                 query, deployed, lastSuccess>>

\* the HTTP status of the response of a call that returned: HTTPException(500)
\* of line 100, else the 200 of a returned dict (lines 31 and 86-96)
status_code_EmptyIsError(call) ==
  IF call.status \in {"Retraining failed", "No data to retrain"}
  THEN 500 ELSE 200

status_code(call) ==
  IF call.status = "Retraining failed" THEN 500 ELSE 200

\* ---------------------------------------------------------------- query_bot
\* lines 40-42: "except Exception" returns the fallback string
ExceptPropagates(q) ==
  [q EXCEPT !.pc = "returned", !.raised = TRUE]

ExceptReturnsError(q) ==
  [q EXCEPT !.pc = "returned", !.result = "Error in query_bot"]

Except(q) ==
  [q EXCEPT !.pc = "returned", !.result = FALLBACK_ON_ERROR]

QueryBeginAlwaysLoads(q, text) ==
  /\ query[q].pc = "idle"
  /\ \A p \in Queries : p < q => query[p].pc # "idle"
  /\ index' = [gen |-> indexFile.gen,
                vectors |-> read_index(indexFile.blob)]
  /\ faq_data' = [gen |-> faqDataFile.gen,
                   recs |-> json_load(faqDataFile.text)]
  /\ query' = [query EXCEPT ![q] =
       [QueryIdle EXCEPT !.pc = "embed", !.text = text,
                         !.startIndex = index'.gen,
                         !.startFaq = faq_data'.gen,
                         !.after = lastSuccess]]
  /\ UNCHANGED <<corpus, indexFile, faqDataFile, retrain,
                 deployed, lastSuccess>>

\* line 29-30: the request enters query_bot; the globals are loaded from the
\* snapshot files when one of them is None
QueryBegin(q, text) ==
  /\ query[q].pc = "idle"
  /\ \A p \in Queries : p < q => query[p].pc # "idle"
  /\ IF index = NoIndex \/ faq_data = NoFaqData
     THEN /\ index' = [gen |-> indexFile.gen,
                        vectors |-> read_index(indexFile.blob)]
          /\ faq_data' = [gen |-> faqDataFile.gen,
                           recs |-> json_load(faqDataFile.text)]
     ELSE UNCHANGED <<index, faq_data>>
  /\ query' = [query EXCEPT ![q] =
       [QueryIdle EXCEPT !.pc = "embed", !.text = text,
                         !.startIndex = index'.gen,
                         !.startFaq = faq_data'.gen,
                         !.after = lastSuccess]]
  /\ UNCHANGED <<corpus, indexFile, faqDataFile, retrain,
                 deployed, lastSuccess>>

\* line 31: embedding = get_embedding(user_question)
QueryEmbedCarriesOver(q) ==
  /\ query[q].pc = "embed"
  /\ LET e == get_embedding(query[q].text)
     IN query' = [query EXCEPT ![q].pc = "search",
                               ![q].embedding = <<e[1] + (q - 1), e[2]>>]
  /\ UNCHANGED <<corpus, indexFile, faqDataFile, index, faq_data,
                 retrain, deployed, lastSuccess>>

QueryEmbed(q) ==
  /\ query[q].pc = "embed"
  /\ query' = [query EXCEPT ![q].pc = "search",
                             ![q].embedding = get_embedding(query[q].text)]
  /\ UNCHANGED <<corpus, indexFile, faqDataFile, index, faq_data,
                 retrain, deployed, lastSuccess>>

\* lines 32-34: D, I = index.search(embedding, k=1) on the index the global
\* names at this moment
QuerySearchWaitsForRebuild(q) ==
  /\ query[q].pc = "search"
  /\ \A r \in Retrainers : retrain[r].pc \notin Rebuilding
  /\ LET found == Search(index.vectors, query[q].embedding)
     IN query' = [query EXCEPT ![q].pc = "check",
                               ![q].matched_index = found.I,
                               ![q].distance = found.D,
                               ![q].searched = index.gen]
  /\ UNCHANGED <<corpus, indexFile, faqDataFile, index, faq_data,
                 retrain, deployed, lastSuccess>>

QuerySearch(q) ==
  /\ query[q].pc = "search"
  /\ LET found == Search(index.vectors, query[q].embedding)
     IN query' = [query EXCEPT ![q].pc = "check",
                               ![q].matched_index = found.I,
                               ![q].distance = found.D,
                               ![q].searched = index.gen]
  /\ UNCHANGED <<corpus, indexFile, faqDataFile, index, faq_data,
                 retrain, deployed, lastSuccess>>

\* lines 37-38: the range and threshold test, with len(faq_data) of the list
\* the global names at this moment
QueryCheck(q) ==
  /\ query[q].pc = "check"
  /\ IF NoConfidentMatch(query[q].matched_index, Len(faq_data.recs),
                         query[q].distance)
     THEN query' = [query EXCEPT ![q].pc = "returned", ![q].result = FALLBACK,
                                 ![q].checked = faq_data.gen]
     ELSE query' = [query EXCEPT ![q].pc = "lookup",
                                 ![q].checked = faq_data.gen]
  /\ UNCHANGED <<corpus, indexFile, faqDataFile, index, faq_data,
                 retrain, deployed, lastSuccess>>

\* line 39: faq_data[matched_index]["answer"], again through the global; a
\* position past the end of the list raises IndexError
QueryLookup(q) ==
  /\ query[q].pc = "lookup"
  /\ IF query[q].matched_index >= Len(faq_data.recs)
     THEN query' = [query EXCEPT ![q] =
            Except([query[q] EXCEPT !.looked = faq_data.gen])]
     ELSE query' = [query EXCEPT ![q].pc = "returned",
            ![q].result = faq_data.recs[query[q].matched_index + 1].answer,
            ![q].looked = faq_data.gen]
  /\ UNCHANGED <<corpus, indexFile, faqDataFile, index, faq_data,
                 retrain, deployed, lastSuccess>>

\* an exception raised by the embedding provider (line 31), by the search
\* (line 32) or by the lookup (line 39) for a reason of its own
QueryFault(q) ==
  /\ query[q].pc \in {"embed", "search", "lookup"}
  /\ query' = [query EXCEPT ![q] = Except([query[q] EXCEPT !.faulted = TRUE])]
  /\ UNCHANGED <<corpus, indexFile, faqDataFile, index, faq_data,
                 retrain, deployed, lastSuccess>>

\* ------------------------------------------------------------ specification
Next ==
  \/ \E faq \in Docs, role \in Roles : add_faq(faq, role)
  \/ \E id \in 1..Cardinality(Docs), role \in Roles : delete_faq(id, role)
  \/ \E r \in Retrainers : RetrainEmpty(r)
  \/ \E r \in Retrainers : RetrainFetch(r)
  \/ \E r \in Retrainers : RetrainEmbedFail(r)
  \/ \E r \in Retrainers : RetrainWriteIndex(r)
  \/ \E r \in Retrainers : RetrainWriteFaqData(r)
  \/ \E r \in Retrainers : ReloadIndex(r)
  \/ \E r \in Retrainers : ReloadFaqData(r)
  \/ \E r \in Retrainers : RetrainFail(r)
  \/ \E q \in Queries, text \in QueryTexts : QueryBegin(q, text)
  \/ \E q \in Queries : QueryEmbed(q)
  \/ \E q \in Queries : QuerySearch(q)
  \/ \E q \in Queries : QueryCheck(q)
  \/ \E q \in Queries : QueryLookup(q)
  \/ \E q \in Queries : QueryFault(q)

Spec == Init /\ [][Next]_vars

\* a step of query_bot call q past its entry: the statements of lines 31-39
QueryStep(q) ==
  \/ QueryEmbed(q)
  \/ QuerySearch(q)
  \/ QueryCheck(q)
  \/ QueryLookup(q)

\* queries, retrain_index calls and a corpus that only grows (generations
\* that shrink still arise, from overlapping calls)
NextLive ==
  \/ \E faq \in Docs, role \in Roles : add_faq(faq, role)
  \/ \E r \in Retrainers : RetrainEmpty(r)
  \/ \E r \in Retrainers : RetrainFetch(r)
  \/ \E r \in Retrainers : RetrainEmbedFail(r)
  \/ \E r \in Retrainers : RetrainWriteIndex(r)
  \/ \E r \in Retrainers : RetrainWriteFaqData(r)
  \/ \E r \in Retrainers : ReloadIndex(r)
  \/ \E r \in Retrainers : ReloadFaqData(r)
  \/ \E r \in Retrainers : RetrainFail(r)
  \/ \E q \in Queries, text \in QueryTexts : QueryBegin(q, text)
  \/ \E q \in Queries : QueryEmbed(q)
  \/ \E q \in Queries : QuerySearch(q)
  \/ \E q \in Queries : QueryCheck(q)
  \/ \E q \in Queries : QueryLookup(q)
  \/ \E q \in Queries : QueryFault(q)

\* the thread pool schedules fairly: the thread of a request that can take
\* its next step takes it eventually, the embedding call of line 31 included;
\* nothing is assumed about retrain_index calls or corpus writers, which may
\* stop anywhere
SpecLive ==
  Init /\ [][NextLive]_vars /\ \A q \in Queries : WF_vars(QueryStep(q))

\* query_bot alone, against one generation: any snapshot of up to three
\* documents is loaded and nothing rebuilds it
InitMatch == \E faqs \in Orderings(MatchDocs) : Loaded(faqs)

NextMatch ==
  \/ \E q \in Queries, text \in MatchTexts : QueryBegin(q, text)
  \/ \E q \in Queries : QueryEmbed(q)
  \/ \E q \in Queries : QuerySearch(q)
  \/ \E q \in Queries : QueryCheck(q)
  \/ \E q \in Queries : QueryLookup(q)
  \/ \E q \in Queries : QueryFault(q)

SpecMatch == InitMatch /\ [][NextMatch]_vars

\* several query_bot calls against one generation that nothing rebuilds
InitTwice == \E faqs \in Orderings(MatchDocs) : Started(faqs, faqs, Callers)

NextTwice ==
  \/ \E q \in Callers, text \in MatchTexts : QueryBegin(q, text)
  \/ \E q \in Callers : QueryEmbed(q)
  \/ \E q \in Callers : QuerySearch(q)
  \/ \E q \in Callers : QueryCheck(q)
  \/ \E q \in Callers : QueryLookup(q)
  \/ \E q \in Callers : QueryFault(q)

SpecTwice == InitTwice /\ [][NextTwice]_vars

\* a process whose database connection failed at import: retrain_index calls
\* and queries on the deployed snapshot
InitNoDatabase ==
  \E faqs \in Orderings(MatchDocs) : Started(faqs, NoCollection, Queries)

NextNoDatabase ==
  \/ \E r \in Retrainers : RetrainNoDatabase(r)
  \/ \E q \in Queries, text \in MatchTexts : QueryBegin(q, text)
  \/ \E q \in Queries : QueryEmbed(q)
  \/ \E q \in Queries : QuerySearch(q)
  \/ \E q \in Queries : QueryCheck(q)
  \/ \E q \in Queries : QueryLookup(q)
  \/ \E q \in Queries : QueryFault(q)

SpecNoDatabase == InitNoDatabase /\ [][NextNoDatabase]_vars

\* retrain_index and the corpus writers alone, no query running
NextRebuild ==
  \/ \E faq \in Docs, role \in Roles : add_faq(faq, role)
  \/ \E id \in 1..Cardinality(Docs), role \in Roles : delete_faq(id, role)
  \/ \E r \in Retrainers : RetrainEmpty(r)
  \/ \E r \in Retrainers : RetrainFetch(r)
  \/ \E r \in Retrainers : RetrainEmbedFail(r)
  \/ \E r \in Retrainers : RetrainWriteIndex(r)
  \/ \E r \in Retrainers : RetrainWriteFaqData(r)
  \/ \E r \in Retrainers : ReloadIndex(r)
  \/ \E r \in Retrainers : ReloadFaqData(r)
  \/ \E r \in Retrainers : RetrainFail(r)

SpecRebuild == Init /\ [][NextRebuild]_vars

\* no retrain_index call other than r is between its fetch and its return
Serial(r) ==
  \A s \in Retrainers \ {r} : retrain[s].pc \notin Rebuilding

\* retrain_index called by administrators who wait for the response of one
\* call before they make the next, and the corpus writers
NextSerial ==
  \/ \E faq \in Docs, role \in Roles : add_faq(faq, role)
  \/ \E id \in 1..Cardinality(Docs), role \in Roles : delete_faq(id, role)
  \/ \E r \in Retrainers : Serial(r) /\ RetrainEmpty(r)
  \/ \E r \in Retrainers : Serial(r) /\ RetrainFetch(r)
  \/ \E r \in Retrainers : Serial(r) /\ RetrainEmbedFail(r)
  \/ \E r \in Retrainers : Serial(r) /\ RetrainWriteIndex(r)
  \/ \E r \in Retrainers : Serial(r) /\ RetrainWriteFaqData(r)
  \/ \E r \in Retrainers : Serial(r) /\ ReloadIndex(r)
  \/ \E r \in Retrainers : Serial(r) /\ ReloadFaqData(r)
  \/ \E r \in Retrainers : Serial(r) /\ RetrainFail(r)

SpecSerial == Init /\ [][NextSerial]_vars

\* chatbot.py line 24: the process is started again while no handler runs, and
\* "import app.chatbot" loads whatever the snapshot files hold
Restart ==
  /\ \A r \in Retrainers : retrain[r].pc \in {"idle", "returned"}
  /\ \A q \in Queries : query[q].pc \in {"idle", "returned"}
  /\ index' = [gen |-> indexFile.gen, vectors |-> read_index(indexFile.blob)]
  /\ faq_data' = [gen |-> faqDataFile.gen, recs |-> json_load(faqDataFile.text)]
  /\ lastSuccess' = NoGen
  /\ UNCHANGED <<corpus, indexFile, faqDataFile, retrain, query, deployed>>

\* retrain_index, the corpus writers and restarts of the process
NextRestart ==
  \/ NextRebuild
  \/ Restart

SpecRestart == Init /\ [][NextRestart]_vars

\* ------------------------------------------------------------------ helpers
\* the documents generation g was built from (ghost)
GenDocs(g) == IF g = 0 THEN deployed ELSE retrain[g].faqs

\* the generations built so far
Gens == {0} \cup {r \in Retrainers : retrain[r].pc \in Rebuilding \cup {"returned"}
                                      /\ retrain[r].faqs # <<>>}

Returned(q) == query[q].pc = "returned"

\* the call read index and faq_data of one and the same generation, and no
\* exception was raised in it
OneGeneration(q) ==
  /\ Returned(q)
  /\ ~query[q].faulted
  /\ query[q].searched # NoGen
  /\ query[q].checked = query[q].searched
  /\ query[q].looked \in {NoGen, query[q].searched}

\* the call found the collection empty: it returned without fetching a
\* document and its find did not raise
FoundEmpty(r) ==
  /\ retrain[r].pc = "returned"
  /\ retrain[r].faqs = <<>>
  /\ retrain[r].stage # "find"

\* what matching text against the generation built from docs yields: the
\* answer of the nearest document when it is within distance 1, else the
\* fallback
Match(docs, text) ==
  LET near == Search(encode(Texts(docs)), get_embedding(text))
  IN IF near.I < 0 \/ near.I >= Len(docs) \/ near.D > 1
     THEN FALLBACK
     ELSE docs[near.I + 1].answer

\* ------------------------------------------------------------------- claims

\* C1: a query that starts while generation G1 is active performs its
\* nearest-neighbour search and its answer lookup on G1, also when a rebuild
\* publishes G2 before the query returns: it returns what G1 yields.
C1_QueryKeepsStartGeneration ==
  \A q \in Queries :
     (/\ Returned(q)
      /\ ~query[q].faulted
      /\ query[q].startIndex = query[q].startFaq)
     => query[q].result = Match(GenDocs(query[q].startIndex), query[q].text)

\* C2: an answer text query_bot returns is the answer of the record nearest to
\* the query, within the threshold, in one single generation.
C2_AnswerFromOneGeneration ==
  \A q \in Queries :
     (Returned(q) /\ query[q].result # FALLBACK)
     => \E g \in Gens :
          LET docs  == GenDocs(g)
              found == Search(encode(Texts(docs)), get_embedding(query[q].text))
          IN /\ found.I \in 0..(Len(docs) - 1)
             /\ found.D <= 1
             /\ query[q].result = docs[found.I + 1].answer

\* C3: in every reachable state the in-memory index holds as many vectors as
\* the in-memory faq_data holds entries.
C3_SameLength == Len(index.vectors) = Len(faq_data.recs)

\* C4: in every reachable state the in-memory index and the in-memory
\* faq_data were produced by the same rebuild.
C4_SameGeneration == index.gen = faq_data.gen

\* C5: two retrain_index calls are never both between the fetch of the corpus
\* and the end of the reload.
C5_OneRebuildAtATime ==
  Cardinality({r \in Retrainers : retrain[r].pc \in Rebuilding}) <= 1

\* C6: a query that begins after retrain_index returned success for G2, no
\* rebuild publishing since, is answered from G2's index and G2's answers: it
\* returns what G2 yields.
C6_QueryAfterSuccessSeesIt ==
  \A q \in Queries :
     (/\ Returned(q)
      /\ ~query[q].faulted
      /\ query[q].after # NoGen)
     => query[q].result = Match(GenDocs(query[q].after), query[q].text)

\* C7: against one generation of N records, query_bot returns the fallback
\* when the nearest position is < 0 or >= N or its distance is > 1, and the
\* answer stored at the nearest position otherwise.
C7_ThresholdDecision ==
  \A q \in Queries :
     OneGeneration(q)
     => query[q].result = Match(GenDocs(query[q].searched), query[q].text)

C7_Witness ==
  \E q \in Queries :
     /\ OneGeneration(q)
     /\ Len(GenDocs(query[q].searched)) = 2
     /\ query[q].matched_index = 1
     /\ query[q].result = "9am-9pm"

\* C8 as claimed: a query whose nearest record is at distance exactly 1 gets
\* the fallback.
C8_BoundaryIsNoMatch ==
  \A q \in Queries :
     (OneGeneration(q) /\ query[q].distance = 1) => query[q].result = FALLBACK

\* C8 as amended: a query whose nearest record is at distance exactly 1 gets
\* that record's answer, not the fallback.
C8_BoundaryIsMatch ==
  \A q \in Queries :
     (OneGeneration(q) /\ query[q].distance = 1)
     => /\ query[q].result # FALLBACK
        /\ query[q].matched_index \in 0..(Len(GenDocs(query[q].searched)) - 1)
        /\ query[q].result =
             GenDocs(query[q].searched)[query[q].matched_index + 1].answer

C8_Witness ==
  \E q \in Queries :
     /\ OneGeneration(q)
     /\ query[q].distance = 1
     /\ query[q].text = "open"
     /\ query[q].result = "9am-9pm"

\* C9: query_bot never raises; it returns the fallback or an answer held by
\* the faq_data list it read, whatever the state of the globals and whatever
\* fails inside it.
C9_NeverRaises ==
  \A q \in Queries :
     /\ ~query[q].raised
     /\ Returned(q)
        => \/ query[q].result = FALLBACK
           \/ /\ query[q].looked # NoGen
              /\ \E i \in 1..Len(GenDocs(query[q].looked)) :
                    query[q].result = GenDocs(query[q].looked)[i].answer

\* the lookup of line 39 raised IndexError: the list shrank between the test
\* of line 37 and the lookup
C9_Witness ==
  \E q \in Queries :
     /\ Returned(q)
     /\ ~query[q].faulted
     /\ query[q].looked # NoGen
     /\ query[q].matched_index >= Len(GenDocs(query[q].looked))
     /\ query[q].result = FALLBACK

\* C10: every step of a retrain_index call that fetched no records leaves the
\* in-memory index and faq_data and the snapshot files as they were.
C10_EmptyCorpusChangesNothing ==
  [][\A r \in Retrainers :
       (retrain'[r] # retrain[r] /\ retrain'[r].faqs = <<>>)
       => UNCHANGED <<index, faq_data, indexFile, faqDataFile>>]_vars

C10_Witness ==
  \E r \in Retrainers :
     /\ retrain[r].status = "No data to retrain"
     /\ index.gen = 1
     /\ faq_data.gen = 1

C12_EmbeddingFailureChangesNothing ==
  [][\A r \in Retrainers :
       (retrain[r].pc = "idle" /\ retrain'[r].stage = "encode")
       => /\ status_code(retrain'[r]) = 500
          /\ UNCHANGED <<index, faq_data, indexFile, faqDataFile>>]_vars

C12_Witness ==
  \E r \in Retrainers :
     /\ retrain[r].stage = "encode"
     /\ retrain[r].status = "Retraining failed"
     /\ retrain[r].faqs # deployed
     /\ index.gen = 0
     /\ indexFile.gen = 0

\* C13: when the only retrain_index call made so far has ended in failure,
\* whatever the statement that raised, the in-memory index and faq_data hold
\* what they held before the call, the deployed generation.
C13_FailureLeavesMemoryUnchanged ==
  \A r \in Retrainers :
     (/\ retrain[r].status = "Retraining failed"
      /\ \A s \in Retrainers \ {r} : retrain[s].pc = "idle")
     => /\ index.vectors = encode(Texts(deployed))
        /\ faq_data.recs = FaqData(deployed)

C14_MismatchedSnapshotNotInstalled ==
  [][(indexFile.blob.ntotal # Len(faqDataFile.text))
     => ~(/\ <<index, faq_data>>' # <<index, faq_data>>
          /\ index'.vectors = read_index(indexFile.blob)
          /\ faq_data'.recs = json_load(faqDataFile.text))]_vars

\* C15: once a retrain_index call that no other call overlapped has returned
\* success, and until the globals are assigned again, the in-memory index has
\* one row per fetched record, row i the embedding of question i, and
\* faq_data has one entry per fetched record, entry i holding question i and
\* answer i.
C15_GenerationIsFetchedCorpus ==
  \A r \in Retrainers :
     (retrain[r].status = "success" /\ lastSuccess = r)
     => LET faqs == retrain[r].faqs
        IN /\ Len(index.vectors) = Len(faqs)
           /\ Len(faq_data.recs) = Len(faqs)
           /\ \A i \in 1..Len(faqs) :
                 /\ index.vectors[i] = get_embedding(faqs[i].question)
                 /\ faq_data.recs[i].question = faqs[i].question
                 /\ faq_data.recs[i].answer = faqs[i].answer

C15_Witness ==
  \E r \in Retrainers :
     /\ retrain[r].status = "success"
     /\ lastSuccess = r
     /\ Len(retrain[r].faqs) = 2
     /\ retrain[r].faqs[1].question = "library"
     /\ faq_data.recs[2].answer = "9am-9pm"

\* C16: the count a successful retrain_index call reports is the number of
\* rows of the in-memory index and of entries of the in-memory faq_data at
\* the moment the call returns, overlapping calls included.
C16_CountIsActiveGeneration ==
  \A r \in Retrainers :
     (retrain[r].status = "success" /\ lastSuccess = r)
     => /\ retrain[r].count = Len(faq_data.recs)
        /\ retrain[r].count = Len(index.vectors)

\* C19: when a retrain_index call follows a successful one and has fetched
\* the same corpus, each of the two assignments of its reload leaves the
\* in-memory index and faq_data with the content they had, and every query
\* text with the result it had.
C19_SecondRebuildChangesNothing ==
  [][\A r \in Retrainers :
       (/\ r - 1 \in Retrainers
        /\ retrain[r - 1].status = "success"
        /\ retrain[r].faqs = retrain[r - 1].faqs
        /\ retrain[r].pc \in {"faq_data_saved", "index_loaded"}
        /\ retrain'[r].pc \in {"index_loaded", "returned"}
        /\ retrain'[r].pc # retrain[r].pc
        /\ retrain'[r].status # "Retraining failed")
       => /\ index'.vectors = index.vectors
          /\ faq_data'.recs = faq_data.recs
          /\ \A text \in MatchTexts :
                Search(index'.vectors, get_embedding(text))
                  = Search(index.vectors, get_embedding(text))]_vars

C19_Witness ==
  \E r \in Retrainers :
     /\ r - 1 \in Retrainers
     /\ retrain[r - 1].status = "success"
     /\ retrain[r].status = "success"
     /\ retrain[r].faqs = retrain[r - 1].faqs
     /\ Len(retrain[r].faqs) = 2
     /\ lastSuccess = r
     /\ index.gen = r
     /\ faq_data.gen = r

\* C17: under fair scheduling of the request threads, every query_bot call
\* that has begun eventually returns, whatever retrain_index calls are made,
\* in progress or stopped half-way.
C17_QueryReturns ==
  \A q \in Queries : (query[q].pc # "idle") ~> (query[q].pc = "returned")

\* a query ran from its search to its return while a rebuild stood between
\* its two assignments of the globals
C17_Witness ==
  \E q \in Queries, r \in Retrainers :
     /\ query[q].pc = "returned"
     /\ retrain[r].pc = "index_loaded"
     /\ query[q].searched = r
     /\ query[q].checked # r
     /\ ~query[q].faulted

C22_PublishedGenerationImmutable ==
  [][/\ index' # index
        => index' = [gen |-> indexFile.gen, vectors |-> read_index(indexFile.blob)]
     /\ faq_data' # faq_data
        => faq_data' = [gen |-> faqDataFile.gen,
                        recs |-> json_load(faqDataFile.text)]
     /\ index'.gen = index.gen => index'.vectors = index.vectors
     /\ faq_data'.gen = faq_data.gen => faq_data'.recs = faq_data.recs]_vars

\* a second generation has replaced the first, with other content
C22_Witness ==
  /\ retrain[1].status = "success"
  /\ index.gen = 2
  /\ faq_data.gen = 2
  /\ retrain[2].faqs # retrain[1].faqs

\* C23: the result of a query_bot call that ended in the except clause is the
\* result of a call that found no confident match (position out of range or
\* distance above the threshold).
C23_FaultLooksLikeNoMatch ==
  \A p, q \in Callers :
     (/\ query[p].pc = "returned" /\ query[p].faulted
      /\ query[q].pc = "returned" /\ ~query[q].faulted
      /\ query[q].searched # NoGen
      /\ \/ query[q].matched_index < 0
         \/ query[q].matched_index >= Len(GenDocs(query[q].searched))
         \/ query[q].distance > DISTANCE_THRESHOLD)
     => query[p].result = query[q].result

C23_Witness ==
  \E p, q \in Callers :
     /\ query[p].pc = "returned" /\ query[p].faulted
     /\ query[p].text = "hours"
     /\ query[q].pc = "returned" /\ ~query[q].faulted
     /\ query[q].text = "weather"
     /\ query[q].distance > DISTANCE_THRESHOLD
     /\ query[q].matched_index >= 0
     /\ query[p].result = query[q].result

\* C25: when every retrain_index call made so far has returned without an
\* error, the in-memory index and faq_data hold what one and the same rebuild
\* built, and the snapshot files hold the same rows and records.
C25_QuiescentConsistent ==
  (\A r \in Retrainers :
      \/ retrain[r].pc = "idle"
      \/ retrain[r].status \in {"success", "No data to retrain"})
  => /\ \E g \in Gens :
          /\ index.vectors = encode(Texts(GenDocs(g)))
          /\ faq_data.recs = FaqData(GenDocs(g))
     /\ read_index(indexFile.blob) = index.vectors
     /\ json_load(faqDataFile.text) = faq_data.recs

\* C26: in every state the rows of the index file are the embeddings of the
\* questions of faq_data.json, one row per record, in the same order.
C26_SnapshotFilesAgree ==
  /\ indexFile.blob.ntotal = Len(faqDataFile.text)
  /\ read_index(indexFile.blob) = encode(Texts(json_load(faqDataFile.text)))

\* C27: a step of a query_bot call finds index and faq_data loaded (the lazy
\* load of lines 29-30 is not taken) and changes neither of them nor the
\* snapshot files.
C27_QueryLeavesGenerationAlone ==
  [][(\E q \in Queries : query'[q].pc # query[q].pc)
     => /\ index # NoIndex
        /\ faq_data # NoFaqData
        /\ UNCHANGED <<index, faq_data, indexFile, faqDataFile>>]_vars

C27_Witness ==
  \E q \in Queries :
     /\ query[q].pc = "returned"
     /\ query[q].startIndex # indexFile.gen
     /\ index.gen = query[q].startIndex
     /\ index # NoIndex
     /\ faq_data # NoFaqData

\* C28: add_faq and delete_faq change neither the in-memory index and
\* faq_data nor the snapshot files, and as long as no retrain_index call has
\* succeeded a query returns what the deployed generation yields for its text.
C28_CorpusEditsDoNotChangeAnswers ==
  [][/\ corpus' # corpus
        => UNCHANGED <<index, faq_data, indexFile, faqDataFile>>
     /\ \A q \in Queries :
           (/\ query[q].pc # "returned"
            /\ query'[q].pc = "returned"
            /\ ~query'[q].faulted
            /\ \A r \in Retrainers : retrain'[r].status # "success")
           => query'[q].result = Match(deployed, query'[q].text)]_vars

\* C29: a retrain_index call made while faq_collection is None ends with HTTP
\* status 503, and the in-memory index and faq_data and the snapshot files
\* are those the process was deployed with.
C29_NoDatabaseIs503 ==
  \A r \in Retrainers :
     (retrain[r].pc = "returned" /\ retrain[r].stage = "database")
     => /\ status_code(retrain[r]) = 503
        /\ index.gen = 0 /\ faq_data.gen = 0
        /\ indexFile.gen = 0 /\ faqDataFile.gen = 0

====
